---- MODULE Spec2Model ----
(***************************************************************************)
(* Model of the restaurant ordering backend in src/main.py: the product    *)
(* catalog, the orders store, the tools the agents call (add_to_order_tool,*)
(* place_order), the agents' instructions, and the /agent endpoint's       *)
(* normalisation, redirect inference and confirm-order special case.       *)
(*                                                                         *)
(* Text is modelled as a sequence of one-character strings (product names) *)
(* or of words (utterances); a Python dict as a function from its keys;    *)
(* None as <<>> and any other optional value v as <<v>>.                   *)
(***************************************************************************)
EXTENDS Integers, Sequences, FiniteSets, TLC

VARIABLES
    products,       \* db["products"], in insertion order
    orders,         \* db["orders"], in insertion order
    lookup,         \* the last add_to_order_tool call: its arguments and result
    pc,             \* position of the /agent request under study
    request,        \* question, order_summary (context) of that request
    run,            \* what Runner.run did: the handler chosen, the tool calls
    final_output,   \* result.final_output
    response_data,  \* the response dict being built
    inserted,       \* the order documents this request has inserted
    status,         \* HTTP status of the finished request
    detail          \* detail of the HTTPException the request ended with

vars == <<products, orders, lookup, pc, request, run, final_output,
          response_data, inserted, status, detail>>

----------------------------------------------------------------------------
(* Bounds *)

MaxProducts == 2
MaxItems == 2
MaxOrders == 3

(* Program constant: the fuzzy-match acceptance threshold. *)
Threshold == 70

----------------------------------------------------------------------------
(* Python values *)

None == <<>>
Some(v) == <<v>>

Max(a, b) == IF a >= b THEN a ELSE b

Rep(c, n) == [i \in 1..n |-> c]

(* str.lower() on one character and on a string *)
LowerCh(c) ==
    CASE c = "A" -> "a"
      [] c = "B" -> "b"
      [] OTHER -> c

Lower(s) == [i \in 1..Len(s) |-> LowerCh(s[i])]

----------------------------------------------------------------------------
(* rapidfuzz: fuzz.ratio and process.extractOne *)

(* One row of the longest-common-subsequence table: acc holds the new    *)
(* row's entries for the prefixes of t shorter than j = Len(acc), prev   *)
(* the previous row's, both with the entry for the empty prefix first.   *)
RECURSIVE RowFill(_, _, _, _)
RowFill(prev, ch, t, acc) ==
    LET j == Len(acc)
    IN IF j > Len(t) THEN acc
       ELSE RowFill(prev, ch, t,
                    Append(acc, IF ch = t[j] THEN prev[j] + 1
                                ELSE Max(prev[j + 1], acc[j])))

RECURSIVE LCSRows(_, _, _, _)
LCSRows(s, t, i, prev) ==
    IF i > Len(s) THEN prev[Len(t) + 1]
    ELSE LCSRows(s, t, i + 1, RowFill(prev, s[i], t, <<0>>))

LCSLen(s, t) == LCSRows(s, t, 1, [j \in 1..(Len(t) + 1) |-> 0])

(* fuzz.ratio(s, t) = 100 * 2*LCS / (len(s) + len(t)), case-sensitive,   *)
(* kept as the fraction <<numerator, denominator>>.                      *)
Ratio(s, t) ==
    IF Len(s) + Len(t) = 0 THEN <<100, 1>>
    ELSE <<200 * LCSLen(s, t), Len(s) + Len(t)>>

ScoreGreater(x, y) == x[1] * y[2] > y[1] * x[2]

ScoreAtLeast(x, n) == x[1] >= n * x[2]

(* process.extractOne(query, choices, scorer=fuzz.ratio): one pass over  *)
(* the choices, a later choice replacing the best so far only when it    *)
(* scores strictly higher. Returns [score, idx] (idx from 1).            *)
RECURSIVE ExtractScan(_, _, _, _)
ExtractScan(query, choices, i, best) ==
    IF i > Len(choices) THEN best
    ELSE LET sc == Ratio(query, choices[i])
         IN ExtractScan(query, choices, i + 1,
                        IF ScoreGreater(sc, best.score)
                        THEN [score |-> sc, idx |-> i] ELSE best)

ExtractOne(query, choices) ==
    ExtractScan(query, choices, 2,
                [score |-> Ratio(query, choices[1]), idx |-> 1])

----------------------------------------------------------------------------
(* The catalog *)

RECURSIVE CategoriesOf(_, _)
CategoriesOf(prods, seen) ==
    IF prods = <<>> THEN seen
    ELSE CategoriesOf(Tail(prods),
                      IF \E i \in 1..Len(seen) : seen[i] = Head(prods).category
                      THEN seen ELSE Append(seen, Head(prods).category))

SameCategory(prods, c) ==
    LET Test(p) == p.category = c IN SelectSeq(prods, Test)

RECURSIVE ConcatGroups(_, _)
ConcatGroups(prods, cats) ==
    IF cats = <<>> THEN <<>>
    ELSE SameCategory(prods, Head(cats)) \o ConcatGroups(prods, Tail(cats))

(* GET /products groups the products by category (a dict, in order of    *)
(* first appearance); add_to_order_tool flattens the groups again.       *)
AllProducts(prods) == ConcatGroups(prods, CategoriesOf(prods, <<>>))

----------------------------------------------------------------------------
(* Messages: an f-string is kept as its template's name and its values. *)

Msg(text, args) == [text |-> text, args |-> args]

EmptyMsg == Msg("", <<>>)

ClarifyMsg == Msg("Please specify both table number and items to confirm your order.", <<>>)

FailedMsg == Msg("Failed to confirm order. Please try again.", <<>>)

SavedMsg == Msg("Order confirmed and saved successfully!", <<>>)

GreetMsg == Msg("Hello! Welcome to Buddies party...", <<>>)

MenuMsg == Msg("Ok, I am showing you the menu.", <<>>)

----------------------------------------------------------------------------
(* add_to_order_tool *)

(* next((p for p in all_products if p["name"].lower() == name.lower()), None) *)
RECURSIVE FirstExact(_, _)
FirstExact(product_name, all) ==
    IF all = <<>> THEN None
    ELSE IF Lower(Head(all).name) = Lower(product_name) THEN Some(Head(all))
    ELSE FirstExact(product_name, Tail(all))

(* FuzzyMatch with the threshold test written score > 70 *)
FuzzyMatchStrict(product_name, all) ==
    LET best == ExtractOne(product_name, [i \in 1..Len(all) |-> all[i].name])
    IN IF ScoreGreater(best.score, <<Threshold, 1>>) THEN Some(all[best.idx])
       ELSE None

FuzzyMatch(product_name, all) ==
    LET best == ExtractOne(product_name, [i \in 1..Len(all) |-> all[i].name])
    IN IF ScoreAtLeast(best.score, Threshold) THEN Some(all[best.idx]) ELSE None

(* The product add_to_order_tool settles on: the exact match, else the   *)
(* fuzzy match, else None.                                               *)
ToolResolve(product_name, all) ==
    LET product == FirstExact(product_name, all)
    IN IF product = None /\ all # <<>> THEN FuzzyMatch(product_name, all)
       ELSE product

(* subtotal with the quantity forgotten *)
SubtotalOfOne(price, quantity) == price

(* subtotal = price * quantity *)
Subtotal(price, quantity) == price * quantity

LineItem(product, quantity) ==
    [name |-> product.name, quantity |-> quantity, price |-> product.price,
     subtotal |-> Subtotal(product.price, quantity)]

add_to_order_tool(table_number, product_name, quantity, prods) ==
    LET product == ToolResolve(product_name, AllProducts(prods))
    IN IF product = None
       THEN [message |-> Msg("Sorry, {product_name} is not available in our menu.",
                             <<product_name>>),
             table_number |-> Some(table_number),
             items |-> <<>>,
             total |-> 0,
             redirect |-> FALSE,
             redirect_url |-> Some(""),
             audio_url |-> ""]
       ELSE [message |-> Msg("{quantity} x {name} (Rs {price} each) added to Table {table_number}'s order. Total Rs {subtotal}.",
                             <<quantity, product[1].name, product[1].price,
                               table_number, Subtotal(product[1].price, quantity)>>),
             table_number |-> Some(table_number),
             items |-> <<LineItem(product[1], quantity)>>,
             total |-> Subtotal(product[1].price, quantity),
             redirect |-> TRUE,
             redirect_url |-> Some("/order_summary"),
             audio_url |-> "/agent-audio?file=bdlz401o.mp3"]

----------------------------------------------------------------------------
(* Catalog and tool calls on their own: POST /products and one call of   *)
(* add_to_order_tool.                                                    *)

a7 == Rep("a", 7)

(* Names that match exactly, in another case, closely, at the threshold, *)
(* just under it, or not at all.                                         *)
NameSet ==
    { <<"a", "b">>, <<"A", "B">>, <<"a", "b", "b">>, <<"a", "a", "b">>,
      <<"b", "b">>, a7, a7 \o Rep("b", 6), a7 \o Rep("b", 7) }

Categories == {"mains", "deals"}

Quantities == {1, 2}

Tables == {0, 5}

Prices == {10}

ResolveTables == {5}

NoLookup == [called |-> FALSE]

InitResolve ==
    /\ products = <<>>
    /\ orders = <<>>
    /\ lookup = NoLookup
    /\ pc = "idle"
    /\ request = None
    /\ run = None
    /\ final_output = None
    /\ response_data = None
    /\ inserted = <<>>
    /\ status = 0
    /\ detail = None

add_product(name, price, category) ==
    /\ lookup = NoLookup
    /\ Len(products) < MaxProducts
    /\ products' = Append(products, [name |-> name, price |-> price,
                                     category |-> category])
    /\ UNCHANGED <<orders, lookup, pc, request, run, final_output,
                   response_data, inserted, status,
                   detail>>

CallAddToOrderTool(table_number, product_name, quantity) ==
    /\ lookup = NoLookup
    /\ lookup' = [called |-> TRUE, table_number |-> table_number,
                  product_name |-> product_name, quantity |-> quantity,
                  product |-> ToolResolve(product_name, AllProducts(products)),
                  result |-> add_to_order_tool(table_number, product_name,
                                               quantity, products)]
    /\ UNCHANGED <<products, orders, pc, request, run, final_output,
                   response_data, inserted, status,
                   detail>>

ToolReturn ==
    /\ lookup # NoLookup
    /\ lookup' = NoLookup
    /\ UNCHANGED <<products, orders, pc, request, run, final_output,
                   response_data, inserted, status,
                   detail>>

NextResolve ==
    \/ \E name \in NameSet, price \in Prices, category \in Categories :
          add_product(name, price, category)
    \/ \E table_number \in ResolveTables, product_name \in NameSet,
          quantity \in Quantities :
          CallAddToOrderTool(table_number, product_name, quantity)
    \/ ToolReturn

SpecResolve == InitResolve /\ [][NextResolve]_vars

----------------------------------------------------------------------------
(* Python dicts as functions *)

Get(d, k) == IF k \in DOMAIN d THEN Some(d[k]) ELSE None

(* bool(x) of an optional number and of an optional list *)
TruthyNumber(opt) == opt # None /\ opt[1] # 0

TruthyList(opt) == opt # None /\ Len(opt[1]) > 0

RECURSIVE SumLines(_)
SumLines(items) ==
    IF items = <<>> THEN 0
    ELSE Head(items).price * Head(items).quantity + SumLines(Tail(items))

----------------------------------------------------------------------------
(* place_order *)

(* products.find_one({"name": {"$regex": "^name$", "$options": "i"}}):    *)
(* the first stored product whose name is the given one, case ignored.   *)
RECURSIVE find_one(_, _)
find_one(name, prods) ==
    IF prods = <<>> THEN None
    ELSE IF Lower(Head(prods).name) = Lower(name) THEN Some(Head(prods))
    ELSE find_one(name, Tail(prods))

ValidatedItem(product, quantity) ==
    [name |-> product.name, quantity |-> quantity, price |-> product.price,
     subtotal |-> product.price * quantity, category |-> product.category]

(* The loop of place_order with a missing product skipped, not reported *)
RECURSIVE ValidateSkipping(_, _, _, _)
ValidateSkipping(items, prods, validated_items, total) ==
    IF items = <<>>
    THEN [found |-> TRUE, validated_items |-> validated_items, total |-> total]
    ELSE LET product == find_one(Head(items).name, prods)
         IN IF product = None
            THEN ValidateSkipping(Tail(items), prods, validated_items, total)
            ELSE ValidateSkipping(Tail(items), prods,
                     Append(validated_items,
                            ValidatedItem(product[1], Head(items).quantity)),
                     total + product[1].price * Head(items).quantity)

(* The loop of place_order: returns at the first item with no product.   *)
RECURSIVE ValidateItems(_, _, _, _)
ValidateItems(items, prods, validated_items, total) ==
    IF items = <<>>
    THEN [found |-> TRUE, validated_items |-> validated_items, total |-> total]
    ELSE LET product == find_one(Head(items).name, prods)
         IN IF product = None
            THEN [found |-> FALSE, name |-> Head(items).name]
            ELSE ValidateItems(Tail(items), prods,
                     Append(validated_items,
                            ValidatedItem(product[1], Head(items).quantity)),
                     total + product[1].price * Head(items).quantity)

(* place_order's result: the document it inserts (if any) and the dict   *)
(* it returns. The document's timestamp is left out.                     *)
place_order(table_number, items, prods) ==
    LET v == ValidateItems(items, prods, <<>>, 0)
    IN IF ~v.found
       THEN [doc |-> None,
             out |-> [message |-> Msg("Item '{item.name}' not found in menu.",
                                      <<v.name>>)]]
       ELSE [doc |-> Some([tableNumber |-> table_number,
                           items |-> v.validated_items,
                           totalAmount |-> v.total]),
             out |-> [message |-> Msg("Order confirmed & saved for Table {table_number}! Total bill Rs {total}",
                                      <<table_number, v.total>>),
                      success |-> TRUE,
                      table_number |-> Some(table_number),
                      items |-> v.validated_items,
                      total |-> v.total,
                      redirect |-> TRUE,
                      redirect_url |-> Some("/order_summary")]]

----------------------------------------------------------------------------
(* Utterances: sequences of words *)

LowerWord(w) ==
    CASE w = "MENU" -> "menu"
      [] w = "Confirm" -> "confirm"
      [] w = "Order" -> "order"
      [] OTHER -> w

LowerWords(q) == [i \in 1..Len(q) |-> LowerWord(q[i])]

(* Python's  kw in q  on texts, word by word *)
Contains(q, kw) ==
    \E i \in 0..(Len(q) - Len(kw)) : \A j \in 1..Len(kw) : q[i + j] = kw[j]

----------------------------------------------------------------------------
(* The agents, acting as their instructions say. What an instruction     *)
(* leaves open is a choice (the handoff of an utterance no rule names,   *)
(* the form of the final output, `variant`).  What the language model    *)
(* reads out of the utterance is the request's `slots`.                  *)

(* main_agent: the handoffs its instructions allow for an utterance *)
Handoffs(question) ==
    LET q == LowerWords(question)
        named == (IF Contains(q, <<"hello">>) THEN {"greeting"} ELSE {})
            \cup (IF Contains(q, <<"menu">>) THEN {"menu"} ELSE {})
            \cup (IF Contains(q, <<"table">>) THEN {"add"} ELSE {})
            \cup (IF Contains(q, <<"confirm", "order">>)
                     \/ Contains(q, <<"finalize", "order">>)
                  THEN {"order"} ELSE {})
    IN IF named # {} THEN named
       ELSE {"greeting", "menu", "add", "order", "none"}

Text(msg) == [kind |-> "text", value |-> msg]

Dict(d) == [kind |-> "dict", value |-> d]

greet_user == GreetMsg

show_menu_tool ==
    [message |-> MenuMsg, redirect |-> TRUE, redirect_url |-> Some("/menu")]

greeting_agent ==
    [calls |-> <<[tool |-> "greet_user", result |-> greet_user]>>,
     out |-> Text(greet_user)]

menu_agent ==
    [calls |-> <<[tool |-> "show_menu_tool", result |-> show_menu_tool]>>,
     out |-> Dict(show_menu_tool)]

ToolCallAdd(table_number, item, prods) ==
    [tool |-> "add_to_order_tool", table_number |-> table_number,
     product_name |-> item.name, quantity |-> item.quantity,
     result |-> add_to_order_tool(table_number, item.name, item.quantity, prods)]

RECURSIVE ConcatItems(_)
ConcatItems(calls) ==
    IF calls = <<>> THEN <<>>
    ELSE Head(calls).result.items \o ConcatItems(Tail(calls))

RECURSIVE SumTotals(_)
SumTotals(calls) ==
    IF calls = <<>> THEN 0
    ELSE Head(calls).result.total + SumTotals(Tail(calls))

(* add_to_order_agent: one tool call per parsed item, then the summary.  *)
(* With `variant` and a single item it hands back the tool's output as   *)
(* it is.                                                                *)
add_to_order_agent(slots, prods, variant) ==
    IF slots.table = None \/ slots.items = <<>>
    THEN [calls |-> <<>>,
          out |-> Text(Msg("Which table, and what would you like to order?", <<>>))]
    ELSE LET calls == [i \in 1..Len(slots.items) |->
                          ToolCallAdd(slots.table[1], slots.items[i], prods)]
         IN [calls |-> calls,
             out |-> IF variant /\ Len(calls) = 1 THEN Dict(calls[1].result)
                     ELSE Dict([table_number |-> slots.table,
                                items |-> ConcatItems(calls),
                                total |-> SumTotals(calls),
                                message |-> Msg("combined",
                                    [i \in 1..Len(calls) |-> calls[i].result.message]),
                                redirect |-> TRUE,
                                redirect_url |-> Some("/order_summary")])]

AgentClarifyMsg ==
    Msg("X Please specify both table number and items to confirm your order.", <<>>)

ToolItems(items) ==
    [i \in 1..Len(items) |-> [name |-> items[i].name,
                              quantity |-> items[i].quantity]]

ToolCallPlace(table_number, items, prods) ==
    [tool |-> "place_order", table_number |-> table_number, items |-> items,
     result |-> place_order(table_number, items, prods)]

OrderError == [calls |-> <<>>, out |-> Dict([message |-> AgentClarifyMsg])]

OrderCall(table_number, items, prods) ==
    LET call == ToolCallPlace(table_number, items, prods)
    IN [calls |-> <<call>>, out |-> Dict(call.result.out)]

(* order_agent: with an order_summary in the context, place_order on its *)
(* table_number and items (with `variant`, also when the item list is    *)
(* empty); without one, on the table and items of the utterance, or the  *)
(* error dict if either is missing.                                      *)
order_agent(slots, context, prods, variant) ==
    IF context # None
    THEN IF "table_number" \in DOMAIN context[1]
            /\ "items" \in DOMAIN context[1]
            /\ (context[1]["items"] # <<>> \/ variant)
         THEN OrderCall(context[1]["table_number"],
                        ToolItems(context[1]["items"]), prods)
         ELSE OrderError
    ELSE IF slots.table # None /\ slots.items # <<>>
         THEN OrderCall(slots.table[1], slots.items, prods)
         ELSE OrderError

RunHandler(handler, req, prods, variant) ==
    CASE handler = "greeting" -> greeting_agent
      [] handler = "menu" -> menu_agent
      [] handler = "add" -> add_to_order_agent(req.slots, prods, variant)
      [] handler = "order" ->
            order_agent(req.slots, req.order_summary, prods, variant)
      [] OTHER -> [calls |-> <<>>,
                   out |-> Text(Msg("How can I help you?", <<>>))]

(* The forms a final output takes: the dict itself, or a string holding  *)
(* it as JSON, as JSON in a ```json fence, as JSON in a bare ``` fence,  *)
(* or as a one-element JSON list; a text is a plain string.              *)
Wraps == {"dict", "json", "fenced", "otherfence", "jsonlist"}

Render(out, wrap) ==
    IF out.kind = "text"
    THEN [kind |-> "str", wrap |-> "plain", value |-> out.value]
    ELSE IF wrap = "dict" THEN [kind |-> "dict", value |-> out.value]
    ELSE [kind |-> "str", wrap |-> wrap, value |-> out.value]

RECURSIVE PlacedDocs(_)
PlacedDocs(calls) ==
    IF calls = <<>> THEN <<>>
    ELSE (IF Head(calls).tool = "place_order" /\ Head(calls).result.doc # None
          THEN <<[via |-> "place_order", doc |-> Head(calls).result.doc[1]]>>
          ELSE <<>>) \o PlacedDocs(Tail(calls))

RECURSIVE Docs(_)
Docs(ins) == IF ins = <<>> THEN <<>> ELSE <<Head(ins).doc>> \o Docs(Tail(ins))

----------------------------------------------------------------------------
(* POST /agent: ask_agent *)

DefaultResponse ==
    [message |-> EmptyMsg, redirect |-> FALSE, redirect_url |-> None,
     table_number |-> None, items |-> <<>>, total |-> 0]

RecognizedKeys ==
    {"message", "redirect", "redirect_url", "table_number", "items", "total",
     "success"}

(* The copy loop with no test that the key is a recognized one *)
CopyAllKeys(resp, d) ==
    [k \in DOMAIN resp \cup DOMAIN d |-> IF k \in DOMAIN d THEN d[k] ELSE resp[k]]

(* for key in [...]: if key in output: response_data[key] = output[key] *)
CopyRecognized(resp, d) ==
    [k \in DOMAIN resp \cup (RecognizedKeys \cap DOMAIN d) |->
        IF k \in RecognizedKeys \cap DOMAIN d THEN d[k] ELSE resp[k]]

(* strip, cut a ```json fence, json.loads: the parsed value, or a        *)
(* JSONDecodeError.                                                      *)
JsonLoads(text) ==
    CASE text.wrap = "json" -> [ok |-> TRUE, isdict |-> TRUE, value |-> text.value]
      [] text.wrap = "fenced" -> [ok |-> TRUE, isdict |-> TRUE, value |-> text.value]
      [] text.wrap = "jsonlist" -> [ok |-> TRUE, isdict |-> FALSE, value |-> <<text.value>>]
      [] OTHER -> [ok |-> FALSE]

(* A string taken as the message: a plain text is what it says, any      *)
(* other string is itself.                                               *)
AsMessage(text) ==
    IF text.wrap = "plain" THEN text.value
    ELSE Msg("{final_output}", <<text.wrap, text.value>>)

Normalized(output) ==
    IF output.kind = "dict" THEN CopyRecognized(DefaultResponse, output.value)
    ELSE LET parsed_output == JsonLoads(output)
         IN IF parsed_output.ok /\ parsed_output.isdict
            THEN CopyRecognized(DefaultResponse, parsed_output.value)
            ELSE [DefaultResponse EXCEPT !["message"] = AsMessage(output)]

(* Force redirect logic with the order keywords tested first *)
OrderFirstRedirect(resp, question) ==
    LET question_lower == LowerWords(question)
    IN IF Contains(question_lower, <<"order">>) /\ ~resp["redirect"]
       THEN [resp EXCEPT !["redirect"] = TRUE,
                         !["redirect_url"] = Some("/order_summary")]
       ELSE IF Contains(question_lower, <<"menu">>) /\ ~resp["redirect"]
       THEN [resp EXCEPT !["redirect"] = TRUE, !["redirect_url"] = Some("/menu")]
       ELSE resp

(* Force redirect logic *)
ForcedRedirect(resp, question) ==
    LET question_lower == LowerWords(question)
    IN IF (Contains(question_lower, <<"menu">>)
              \/ Contains(question_lower, <<"show", "menu">>)
              \/ Contains(question_lower, <<"mujhe", "menu">>))
          /\ ~resp["redirect"]
       THEN [resp EXCEPT !["redirect"] = TRUE, !["redirect_url"] = Some("/menu")]
       ELSE IF (Contains(question_lower, <<"order">>)
                   \/ Contains(question_lower, <<"order", "confirmation">>)
                   \/ Contains(question_lower, <<"my", "order">>)
                   \/ Contains(question_lower, <<"mera", "order">>))
               /\ ~resp["redirect"]
       THEN [resp EXCEPT !["redirect"] = TRUE,
                         !["redirect_url"] = Some("/order_summary")]
       ELSE resp

IsConfirmOrder(question) ==
    Contains(LowerWords(question), <<"confirm", "order">>)

(* if context and context.get("table_number") and context.get("items") *)
ContextUsable(context) ==
    /\ context # None
    /\ DOMAIN context[1] # {}
    /\ TruthyNumber(Get(context[1], "table_number"))
    /\ TruthyList(Get(context[1], "items"))

(* saved_order with the total worked out from the items *)
SavedOrderRecomputed(context) ==
    [tableNumber |-> context["table_number"],
     items |-> context["items"],
     totalAmount |-> SumLines(context["items"])]

SavedOrder(context) ==
    [tableNumber |-> context["table_number"],
     items |-> context["items"],
     totalAmount |-> IF "total" \in DOMAIN context THEN context["total"] ELSE 0]

(* response_data.update({...}) after the insert *)
ConfirmedResponse(resp, saved_order) ==
    [k \in DOMAIN resp |->
        CASE k = "message" -> SavedMsg
          [] k = "redirect" -> TRUE
          [] k = "redirect_url" -> Some("/order_summary")
          [] k = "table_number" -> Some(saved_order.tableNumber)
          [] k = "items" -> saved_order.items
          [] k = "total" -> saved_order.totalAmount
          [] OTHER -> resp[k]]

----------------------------------------------------------------------------
(* The requests served *)

SeqsUpTo(S, n) == UNION {[1..k -> S] : k \in 0..n}

Pab == [name |-> <<"a", "b">>, price |-> 10, category |-> "mains"]

Pba == [name |-> <<"b", "a">>, price |-> 15, category |-> "deals"]

Catalogs == {<<>>, <<Pab>>, <<Pab, Pba>>}

(* Asked-for items: one on the menu in another case, one close to a     *)
(* menu name, one not on the menu.                                       *)
SlotItems ==
    { [name |-> <<"A", "B">>, quantity |-> 1],
      [name |-> <<"a", "b", "b">>, quantity |-> 2],
      [name |-> <<"b", "b">>, quantity |-> 1] }

NoSlots == [table |-> None, items |-> <<>>]

AllSlots == [table : {None, Some(5)}, items : SeqsUpTo(SlotItems, MaxItems)]

ContextItems ==
    { LineItem([name |-> <<"a", "b">>, price |-> 10], 1),
      LineItem([name |-> <<"a", "b">>, price |-> 10], 2),
      LineItem([name |-> <<"b", "b">>, price |-> 10], 1) }

Field(k, opt) == IF opt = None THEN <<>> ELSE k :> opt[1]

Contexts ==
    {Field("table_number", t) @@ ("items" :> its) @@ Field("total", tot) :
        t \in {None} \cup {Some(n) : n \in Tables},
        its \in SeqsUpTo(ContextItems, MaxItems),
        tot \in {None, Some(20)}}

Questions ==
    { <<"hello">>, <<"mujhe", "MENU">>, <<"menu", "order">>,
      <<"table", "order">>, <<"table", "add">>, <<"confirm", "order">>,
      <<"Confirm", "Order">>, <<"finalize", "order">>, <<"thanks">> }

Requests ==
    [question : Questions, slots : {NoSlots}, order_summary : {None}]
    \cup [question : {<<"table", "order">>, <<"table", "add">>,
                      <<"confirm", "order">>, <<"finalize", "order">>},
          slots : AllSlots, order_summary : {None}]
    \cup [question : {<<"confirm", "order">>, <<"Confirm", "Order">>,
                      <<"finalize", "order">>},
          slots : {NoSlots}, order_summary : {Some(c) : c \in Contexts}]

(* What POST /orders is sent: any total beside any items *)
PostedOrders ==
    [tableNumber : {"7"},
     items : {<<[name |-> <<"a", "b">>, price |-> 10, quantity |-> 1,
                 category |-> "mains"]>>},
     totalAmount : {0, 10}]

----------------------------------------------------------------------------
(* The state machine *)

Init ==
    /\ products \in Catalogs
    /\ orders = <<>>
    /\ lookup = NoLookup
    /\ pc = "idle"
    /\ request = None
    /\ run = None
    /\ final_output = None
    /\ response_data = None
    /\ inserted = <<>>
    /\ status = 0
    /\ detail = None

(* POST /orders *)
create_order ==
    /\ pc = "idle"
    /\ Len(orders) < MaxOrders
    /\ \E order \in PostedOrders : orders' = Append(orders, order)
    /\ UNCHANGED <<products, lookup, pc, request, run, final_output,
                   response_data, inserted, status,
                   detail>>

HTTPException(status_code, text) == [status_code |-> status_code, detail |-> text]

(* raise HTTPException(status_code=400, ...) when question is empty *)
NoQuestionError == HTTPException(400, Msg("No question or audio provided.", <<>>))

(* str(e) of an HTTPException: "<status_code>: <detail>" *)
Str(e) == Msg("{status_code}: {detail}", <<e.status_code, e.detail>>)

(* except Exception as e: every exception raised in the try block, an    *)
(* HTTPException included, becomes HTTPException(500, str(e)).           *)
Caught(e) == HTTPException(500, Str(e))

(* ask_agent with no question and no audio: the HTTPException(400) is    *)
(* raised inside the try block and caught by its except Exception, which *)
(* raises HTTPException(500).                                            *)
AskAgentNoQuestion ==
    /\ pc = "idle"
    /\ request' = Some([question |-> <<>>, slots |-> NoSlots,
                        order_summary |-> None])
    /\ pc' = "done"
    /\ LET e == Caught(NoQuestionError)
       IN /\ status' = e.status_code
          /\ detail' = Some(e.detail)
    /\ UNCHANGED <<products, orders, lookup, run, final_output, response_data,
                   inserted>>

(* The choices a handler's instructions leave open *)
Variants(handler) == IF handler \in {"add", "order"} THEN BOOLEAN ELSE {FALSE}

WrapsOf(out) == IF out.kind = "text" THEN {"plain"} ELSE Wraps

(* ask_agent up to the end of Runner.run: the handoff, the handler's     *)
(* tool calls (place_order inserts), the final output. A request starts  *)
(* only while the store has room for the two documents it may insert.    *)
AskAgentRun ==
    /\ pc = "idle"
    /\ Len(orders) + 2 <= MaxOrders
    /\ \E req \in Requests :
       \E handler \in Handoffs(req.question) :
       \E variant \in Variants(handler) :
          LET r == RunHandler(handler, req, products, variant)
          IN \E wrap \in WrapsOf(r.out) :
                /\ request' = Some(req)
                /\ run' = Some([handler |-> handler, calls |-> r.calls,
                                out |-> r.out])
                /\ final_output' = Some(Render(r.out, wrap))
                /\ inserted' = PlacedDocs(r.calls)
                /\ orders' = orders \o Docs(PlacedDocs(r.calls))
    /\ pc' = "normalize"
    /\ UNCHANGED <<products, lookup, response_data, status,
                   detail>>

NormalizeOutput ==
    /\ pc = "normalize"
    /\ response_data' = Some(Normalized(final_output[1]))
    /\ pc' = "redirect"
    /\ UNCHANGED <<products, orders, lookup, request, run, final_output,
                   inserted, status,
                   detail>>

ForceRedirect ==
    /\ pc = "redirect"
    /\ response_data' = Some(ForcedRedirect(response_data[1], request[1].question))
    /\ pc' = "confirm"
    /\ UNCHANGED <<products, orders, lookup, request, run, final_output,
                   inserted, status,
                   detail>>

(* SPECIAL HANDLING for confirm order; insert_one either returns or      *)
(* raises.                                                               *)
ConfirmOrder(insert_ok) ==
    /\ pc = "confirm"
    /\ pc' = "tts"
    /\ IF ~IsConfirmOrder(request[1].question)
       THEN UNCHANGED <<orders, response_data, inserted>>
       ELSE IF ~ContextUsable(request[1].order_summary)
       THEN /\ response_data' =
                  Some([response_data[1] EXCEPT !["message"] = ClarifyMsg])
            /\ UNCHANGED <<orders, inserted>>
       ELSE IF ~insert_ok
       THEN /\ response_data' =
                  Some([response_data[1] EXCEPT !["message"] = FailedMsg])
            /\ UNCHANGED <<orders, inserted>>
       ELSE LET saved_order == SavedOrder(request[1].order_summary[1])
            IN /\ orders' = Append(orders, saved_order)
               /\ inserted' = Append(inserted, [via |-> "confirm",
                                                doc |-> saved_order])
               /\ response_data' =
                     Some(ConfirmedResponse(response_data[1], saved_order))
    /\ UNCHANGED <<products, lookup, request, run, final_output, status,
                   detail>>

(* TTS of a non-empty message, then the response is returned *)
Speak ==
    /\ pc = "tts"
    /\ response_data' =
          IF response_data[1]["message"].text # ""
          THEN Some(response_data[1] @@ ("audio_url" :> "/agent-audio?file=..."))
          ELSE response_data
    /\ status' = 200
    /\ pc' = "done"
    /\ UNCHANGED <<products, orders, lookup, request, run, final_output,
                   inserted, detail>>

Next ==
    \/ create_order
    \/ AskAgentNoQuestion
    \/ AskAgentRun
    \/ NormalizeOutput
    \/ ForceRedirect
    \/ \E insert_ok \in BOOLEAN : ConfirmOrder(insert_ok)
    \/ Speak

Spec == Init /\ [][Next]_vars

----------------------------------------------------------------------------
(* What the claims speak of *)

Responded == pc = "done" /\ status = 200

ViaConfirm == {i \in 1..Len(inserted) : inserted[i].via = "confirm"}

ViaPlaceOrder == {i \in 1..Len(inserted) : inserted[i].via = "place_order"}

(* C1: a request whose utterance holds "confirm order" has inserted at   *)
(* most one order when its response is returned, and exactly one when    *)
(* the response says the order was confirmed and saved (the inserts of   *)
(* place_order and of the endpoint's confirm-order step both counted).   *)
C1_ExactlyOneOrder ==
    (Responded /\ IsConfirmOrder(request[1].question)) =>
        /\ Len(inserted) <= 1
        /\ response_data[1]["message"] = SavedMsg => Len(inserted) = 1

(* The table number is missing or the item list is empty: in the         *)
(* order_summary if one came, else in the utterance.                     *)
OrderIncomplete(req) ==
    IF req.order_summary # None
    THEN \/ "table_number" \notin DOMAIN req.order_summary[1]
         \/ req.order_summary[1]["items"] = <<>>
    ELSE req.slots.table = None \/ req.slots.items = <<>>

(* C2: a "confirm order" request with the table number missing or the    *)
(* item list empty is answered with the fixed clarification text and has *)
(* persisted no order.                                                   *)
C2_IncompleteNotPersisted ==
    (Responded /\ IsConfirmOrder(request[1].question)
        /\ OrderIncomplete(request[1])) =>
        /\ response_data[1]["message"] = ClarifyMsg
        /\ inserted = <<>>

(* C3: every persisted order's totalAmount is the sum of price times     *)
(* quantity over its items, whichever path wrote it.                     *)
C3_TotalIsSumOfLines ==
    \A i \in 1..Len(orders) : orders[i].totalAmount = SumLines(orders[i].items)

(* The endpoint's confirm-order step saved the context's order and the   *)
(* response echoes it.                                                   *)
ContextOrderEchoed(context) ==
    LET total == IF "total" \in DOMAIN context THEN context["total"] ELSE 0
        r == response_data[1]
    IN /\ Cardinality(ViaConfirm) = 1
       /\ \A i \in ViaConfirm :
             /\ inserted[i].doc.tableNumber = context["table_number"]
             /\ inserted[i].doc.items = context["items"]
             /\ inserted[i].doc.totalAmount = total
             /\ \E j \in 1..Len(orders) : orders[j] = inserted[i].doc
       /\ r["message"] = SavedMsg
       /\ r["redirect"] = TRUE
       /\ r["redirect_url"] = Some("/order_summary")
       /\ r["table_number"] = Some(context["table_number"])
       /\ r["items"] = context["items"]
       /\ r["total"] = total

(* C4 as claimed: every "confirm order" request whose context carries a  *)
(* table number and a non-empty item list persists the context's order   *)
(* and echoes it in the response.                                        *)
C4_AsClaimed ==
    (Responded /\ IsConfirmOrder(request[1].question)
        /\ request[1].order_summary # None
        /\ "table_number" \in DOMAIN request[1].order_summary[1]
        /\ request[1].order_summary[1]["items"] # <<>>) =>
        ContextOrderEchoed(request[1].order_summary[1])

(* C4, amended: every "confirm order" request whose context carries a    *)
(* truthy (non-zero) table number and a non-empty item list either       *)
(* persists the context's order (table number, items, total, the total 0 *)
(* when absent) and has message, redirect, redirect_url, table_number,   *)
(* items and total overwritten to echo it, whatever the handler          *)
(* returned; or, when that insert raises, persists nothing in that step  *)
(* and answers with the failure message.                                 *)
C4_ContextOrderSavedAndEchoed ==
    (Responded /\ IsConfirmOrder(request[1].question)
        /\ request[1].order_summary # None
        /\ TruthyNumber(Get(request[1].order_summary[1], "table_number"))
        /\ request[1].order_summary[1]["items"] # <<>>) =>
        \/ ContextOrderEchoed(request[1].order_summary[1])
        \/ /\ ViaConfirm = {}
           /\ response_data[1]["message"] = FailedMsg

(* place_order refused the context's order (an item not on the menu) and *)
(* returned only a message; the confirm-order step saved the order as    *)
(* the context gave it and the response echoes it.                       *)
C4_Witness ==
    /\ Responded
    /\ IsConfirmOrder(request[1].question)
    /\ request[1].order_summary # None
    /\ DOMAIN run[1].out.value = {"message"}
    /\ ViaPlaceOrder = {}
    /\ ViaConfirm # {}
    /\ response_data[1]["message"] = SavedMsg
    /\ response_data[1]["total"] = 20
    /\ Len(response_data[1]["items"]) = 2

PlaceOrderCalls ==
    IF run = None THEN {}
    ELSE {i \in 1..Len(run[1].calls) : run[1].calls[i].tool = "place_order"}

Unresolved(items) ==
    {k \in 1..Len(items) : find_one(items[k].name, products) = None}

(* C5: a place_order call with an item that is not in the catalog        *)
(* inserts nothing and returns the not-found message for that item; a    *)
(* call whose items are all in the catalog inserts one order holding a   *)
(* line for every item, in order.                                        *)
C5_NoPartialOrder ==
    \A i \in PlaceOrderCalls :
        LET call == run[1].calls[i]
            missing == Unresolved(call.items)
        IN IF missing # {}
           THEN /\ call.result.doc = None
                /\ ViaPlaceOrder = {}
                /\ \E k \in missing :
                      /\ \A j \in missing : k <= j
                      /\ call.result.out =
                            [message |-> Msg("Item '{item.name}' not found in menu.",
                                             <<call.items[k].name>>)]
           ELSE /\ call.result.doc # None
                /\ \E j \in ViaPlaceOrder :
                      /\ inserted[j].doc = call.result.doc[1]
                      /\ orders[Len(orders) - Len(inserted) + j]
                            = call.result.doc[1]
                /\ Len(call.result.doc[1].items) = Len(call.items)
                /\ \A k \in 1..Len(call.items) :
                      /\ Lower(call.result.doc[1].items[k].name)
                            = Lower(call.items[k].name)
                      /\ call.result.doc[1].items[k].quantity
                            = call.items[k].quantity

(* place_order was called with a first item on the menu and a second one *)
(* that is not, and nothing was inserted.                                *)
C5_Witness ==
    \E i \in PlaceOrderCalls :
        /\ Len(run[1].calls[i].items) = 2
        /\ Unresolved(run[1].calls[i].items) = {2}
        /\ inserted = <<>>
        /\ orders = <<>>

(* C10: when the response to a "confirm order" request carries the       *)
(* clarification prompt or the failure message, the request has inserted *)
(* no order, through place_order or otherwise.                           *)
C10_MessageMatchesStore ==
    (Responded /\ IsConfirmOrder(request[1].question)
        /\ (\/ response_data[1]["message"] = ClarifyMsg
            \/ response_data[1]["message"] = FailedMsg)) =>
        inserted = <<>>

----------------------------------------------------------------------------
(* C6: item resolution in add_to_order_tool is the reference resolve.    *)

ExactAt(query, cands) ==
    {i \in 1..Len(cands) : Lower(cands[i].name) = Lower(query)}

(* The position of the first candidate of maximal similarity. *)
FirstBest(query, cands) ==
    CHOOSE i \in 1..Len(cands) :
        /\ \A j \in 1..Len(cands) :
              ~ScoreGreater(Ratio(query, cands[j].name), Ratio(query, cands[i].name))
        /\ \A j \in 1..(i - 1) :
              ScoreGreater(Ratio(query, cands[i].name), Ratio(query, cands[j].name))

RefResolve(query, cands) ==
    IF ExactAt(query, cands) # {}
    THEN Some(cands[CHOOSE i \in ExactAt(query, cands) :
                       \A j \in ExactAt(query, cands) : i <= j])
    ELSE IF cands = <<>> THEN None
    ELSE IF ScoreAtLeast(Ratio(query, cands[FirstBest(query, cands)].name), 70)
         THEN Some(cands[FirstBest(query, cands)])
         ELSE None

(* C6: every add_to_order_tool call settles on the product the reference *)
(* resolve(query, candidates) names over the flattened catalog: the      *)
(* first case-insensitive exact match, else the first candidate of       *)
(* maximal similarity if that similarity is at least 70, else NotFound   *)
(* (an empty catalog included); the tool's result carries that product's *)
(* line, or no line when NotFound.                                       *)
C6_ResolveIsReference ==
    lookup.called =>
        LET ref == RefResolve(lookup.product_name, AllProducts(products))
        IN /\ lookup.product = ref
           /\ lookup.result.items =
                 IF ref = None THEN <<>>
                 ELSE <<LineItem(ref[1], lookup.quantity)>>

(* A call with no exact match whose best similarity is exactly 70 and is *)
(* shared by two candidates: the first of them is taken.                 *)
C6_Witness ==
    /\ lookup.called
    /\ LET all == AllProducts(products)
           q == lookup.product_name
       IN /\ ExactAt(q, all) = {}
          /\ Len(all) = 2
          /\ Ratio(q, all[1].name) = Ratio(q, all[2].name)
          /\ Ratio(q, all[1].name)[1] = 70 * Ratio(q, all[1].name)[2]
          /\ all[1] # all[2]
          /\ lookup.product = Some(all[1])

(* The handler output as a structured value, if it is one: a dict, or a  *)
(* string that is JSON for one, bare or in a ```json fence.              *)
StructuredOutput ==
    IF final_output # None
       /\ (\/ final_output[1].kind = "dict"
           \/ final_output[1].wrap \in {"json", "fenced"})
    THEN Some(final_output[1].value)
    ELSE None

(* What the handler output set field k to, if it set it *)
HandlerGave(k) ==
    IF StructuredOutput # None /\ k \in DOMAIN StructuredOutput[1]
    THEN Some(StructuredOutput[1][k])
    ELSE None

HasMenuKeyword(question) ==
    \E kw \in {<<"menu">>, <<"show", "menu">>, <<"mujhe", "menu">>} :
        Contains(LowerWords(question), kw)

HasOrderKeyword(question) ==
    \E kw \in {<<"order">>, <<"order", "confirmation">>, <<"my", "order">>,
               <<"mera", "order">>} :
        Contains(LowerWords(question), kw)

(* C7 as stated: after redirect inference (and to the end of a request  *)
(* that is not                                                           *)
(* a "confirm order" one): if the handler output set redirect to true,   *)
(* redirect and redirect_url are as the handler gave them; otherwise a   *)
(* menu keyword in the utterance gives redirect = true and /menu;        *)
(* otherwise an order keyword gives redirect = true and /order_summary;  *)
(* otherwise redirect is false and redirect_url is null.                 *)
C7_AsClaimed ==
    (/\ pc \in {"confirm", "tts", "done"}
     /\ response_data # None
     /\ pc = "confirm" \/ ~IsConfirmOrder(request[1].question)) =>
        LET r == response_data[1]
            q == request[1].question
            url == IF HandlerGave("redirect_url") = None THEN None
                   ELSE HandlerGave("redirect_url")[1]
        IN IF HandlerGave("redirect") = Some(TRUE)
           THEN r["redirect"] = TRUE /\ r["redirect_url"] = url
           ELSE IF HasMenuKeyword(q)
           THEN r["redirect"] = TRUE /\ r["redirect_url"] = Some("/menu")
           ELSE IF HasOrderKeyword(q)
           THEN r["redirect"] = TRUE /\ r["redirect_url"] = Some("/order_summary")
           ELSE r["redirect"] = FALSE /\ r["redirect_url"] = None

(* C7: after redirect inference (and to the end of a request that is not *)
(* a "confirm order" one): if the handler output set redirect to true,   *)
(* redirect and redirect_url are as the handler gave them; otherwise a   *)
(* menu keyword in the utterance gives redirect = true and /menu;        *)
(* otherwise an order keyword gives redirect = true and /order_summary;  *)
(* otherwise redirect stays false and redirect_url stays what it was,    *)
(* null unless the handler gave one.                                     *)
C7_RedirectInference ==
    (/\ pc \in {"confirm", "tts", "done"}
     /\ response_data # None
     /\ pc = "confirm" \/ ~IsConfirmOrder(request[1].question)) =>
        LET r == response_data[1]
            q == request[1].question
            url == IF HandlerGave("redirect_url") = None THEN None
                   ELSE HandlerGave("redirect_url")[1]
        IN IF HandlerGave("redirect") = Some(TRUE)
           THEN r["redirect"] = TRUE /\ r["redirect_url"] = url
           ELSE IF HasMenuKeyword(q)
           THEN r["redirect"] = TRUE /\ r["redirect_url"] = Some("/menu")
           ELSE IF HasOrderKeyword(q)
           THEN r["redirect"] = TRUE /\ r["redirect_url"] = Some("/order_summary")
           ELSE r["redirect"] = FALSE /\ r["redirect_url"] = url

(* An utterance with a menu keyword in capitals and an order keyword,    *)
(* answered by an output that set no redirect: the response redirects to *)
(* /menu.                                                                *)
C7_Witness ==
    /\ Responded
    /\ HasMenuKeyword(request[1].question)
    /\ HasOrderKeyword(request[1].question)
    /\ HandlerGave("redirect") = None
    /\ response_data[1]["redirect"] = TRUE
    /\ response_data[1]["redirect_url"] = Some("/menu")

(* C8: right after normalisation of a structured handler output, the     *)
(* response holds every recognized field the output supplied, with the   *)
(* output's value, holds no unrecognized field, and has every other      *)
(* recognized field at its default: message "", redirect false,          *)
(* redirect_url null, table_number null, items [], total 0 (and no       *)
(* success field).                                                       *)
C8_RecognizedFieldsOnly ==
    (pc = "redirect" /\ StructuredOutput # None) =>
        LET d == StructuredOutput[1]
            r == response_data[1]
            recognized == {"message", "redirect", "redirect_url",
                           "table_number", "items", "total", "success"}
        IN /\ DOMAIN r = (recognized \cap DOMAIN d)
                 \cup {"message", "redirect", "redirect_url", "table_number",
                       "items", "total"}
           /\ \A k \in recognized \cap DOMAIN d : r[k] = d[k]
           /\ "message" \notin DOMAIN d => r["message"] = Msg("", <<>>)
           /\ "redirect" \notin DOMAIN d => r["redirect"] = FALSE
           /\ "redirect_url" \notin DOMAIN d => r["redirect_url"] = None
           /\ "table_number" \notin DOMAIN d => r["table_number"] = None
           /\ "items" \notin DOMAIN d => r["items"] = <<>>
           /\ "total" \notin DOMAIN d => r["total"] = 0

(* An output, sent as fenced JSON, with some recognized fields, not all, *)
(* and an unrecognized one: the response has the first, defaults for the *)
(* rest and not the last.                                                *)
C8_Witness ==
    /\ pc = "redirect"
    /\ final_output[1].kind = "str"
    /\ final_output[1].wrap = "fenced"
    /\ "audio_url" \in DOMAIN final_output[1].value
    /\ "success" \notin DOMAIN final_output[1].value
    /\ "audio_url" \notin DOMAIN response_data[1]
    /\ response_data[1]["total"] = 20

(* The lines and the sum of price times quantity of the asked-for items  *)
(* that the reference resolve finds in the catalog.                      *)
RECURSIVE ResolvedLines(_)
ResolvedLines(items) ==
    IF items = <<>> THEN <<>>
    ELSE LET ref == RefResolve(Head(items).name, AllProducts(products))
         IN (IF ref = None THEN <<>>
             ELSE <<[name |-> ref[1].name, quantity |-> Head(items).quantity,
                     price |-> ref[1].price,
                     subtotal |-> ref[1].price * Head(items).quantity]>>)
            \o ResolvedLines(Tail(items))

AddRun ==
    /\ run # None
    /\ run[1].handler = "add"
    /\ request[1].slots.table # None
    /\ request[1].slots.items # <<>>

C11_NoQuestionIs400 ==
    (pc = "done" /\ request[1].question = <<>>) =>
        /\ status = 400
        /\ detail = Some(Msg("No question or audio provided.", <<>>))
        /\ run = None
        /\ inserted = <<>>
        /\ final_output = None
        /\ response_data = None

====
